---- MODULE Spec2Model ----
(***************************************************************************)
(* Balloon game (src/src/lib.rs): the player's inflation controller, the   *)
(* tile probe that guards a resize, the jump logic, the audio cues and the *)
(* level flow of Demo::update, as one state machine.                       *)
(*                                                                         *)
(* The source computes in f32; the model computes in exact integers:       *)
(*   time        1 unit = 1/300 s      (JUMP_HIGH_TIME 0.08 s = 24)        *)
(*   rate        1 unit = 1/250        (INFLATION_SPEED * 1 time unit = 1) *)
(*   air         1 unit = 1/600        (INFLATOR_SPEED * 1 time unit = 1)  *)
(*   length      1 unit = 1/31250 px   (32 px = 1000000)                   *)
(*   velocity    1 unit = 0.2 px/s     (JUMP_HIGH_ACCEL * 1 time unit = 13)*)
(*   mass, gravity, restitution: exact fractions [n, d]                    *)
(***************************************************************************)
EXTENDS Integers, Sequences, FiniteSets

VARIABLES
    \* Game (G)
    dead, current_level, remained_air, loading_level,
    \* Player
    can_jump, high_jump_time, inflation_rate, original_size, normal, inflation,
    \* the player's Entity
    alive, pos, size, vel, accel, mass, gravity, restitution, on_ground,
    \* SoundManager (S)
    playing,
    \* Engine: polled input, tick length, the level's Crown is still there, position in the frame
    input, tick, crown, phase,
    \* observations of the running frame
    outcome, cues, load_calls, requests,
    \* observations of the running press of Jump: upward velocity the jump logic
    \* gave since the jump, time the key stayed held after the jump tick (-1: no
    \* jump being held), and a tick without Jump held has passed since the jump
    boost, hold_time, released

game_vars   == <<dead, current_level, remained_air, loading_level>>
player_vars == <<can_jump, high_jump_time, inflation_rate, original_size, normal, inflation>>
ent_vars    == <<alive, pos, size, vel, accel, mass, gravity, restitution, on_ground>>
engine_vars == <<input, tick, crown, phase>>
obs_vars    == <<outcome, cues, load_calls, requests>>
jump_obs    == <<boost, hold_time, released>>
vars == <<game_vars, player_vars, ent_vars, playing, engine_vars, obs_vars, jump_obs>>

----------------------------------------------------------------------------
(* Program constants, in the units above *)
ACCEL_DEFLATION == 900
ACCEL_GROUND    == 600
ACCEL_AIR       == 300
PLAYER_JUMP_VEL == 1000
JUMP_HIGH_TIME  == 24
JUMP_HIGH_ACCEL == 13
INFLATION_SPEED == 1
MIN_INFLATION   == 400
MAX_INFLATION   == 2000
PLAYER_SIZE     == [x |-> 1000000, y |-> 1000000]
INFLATOR_SPEED  == 1
SPAWN_INFLATION == 700
FULL_AIR        == 600
IMPACT_VEL      == 600

(* Bounds of the model *)
MaxLevel     == 1     \* the project holds Level_0 .. Level_MaxLevel
MaxDead      == 1     \* deaths explored per session
GridSize     == 16    \* the collision map is GridSize x GridSize tiles
TileSize     == 1000000
MaxRequests  == 2     \* Door touches explored per tick

\* tick lengths the engine may report: long enough for the rate to reach both
\* ends of its range, and for one tick to ask for more air than is left
Ticks == {400, 800}
FlowTicks == {400}
\* for the jump: the charge of JUMP_HIGH_TIME runs out exactly after 8 + 16 and
\* is overshot by 16 + 16
JumpTicks == {8, 16}
\* for one resize from any box: a 60 Hz frame and the long ticks
BoxTicks == {5, 400, 800}
\* for a jump pressed on a resize tick: next to the floor a growth from the
\* spawn rate is committed over the short tick and blocked over the long one
SkipTicks == {400, 800}

----------------------------------------------------------------------------
(* Arithmetic helpers *)
Max(a, b) == IF a >= b THEN a ELSE b
Min(a, b) == IF a <= b THEN a ELSE b
Abs(a)    == IF a >= 0 THEN a ELSE -a
FloorDiv(a, b) == a \div b
CeilDiv(a, b)  == -((-a) \div b)

\* f32::clamp
ClampOff(v, lo, hi) == v
Clamp(v, lo, hi) == IF v < lo THEN lo ELSE IF v > hi THEN hi ELSE v

\* fractions n/d with d > 0
Frac(n, d)     == [n |-> n, d |-> d]
FracLess(a, b) == a.n * b.d < b.n * a.d
FracEq(a, b)   == a.n * b.d = b.n * a.d
FracClampOff(v, lo, hi) == v
FracClamp(v, lo, hi) == IF FracLess(v, lo) THEN lo ELSE IF FracLess(hi, v) THEN hi ELSE v

Vec(a, b) == [x |-> a, y |-> b]
VecMin(a, b) == Vec(Min(a.x, b.x), Min(a.y, b.y))

\* lerp_size: (ori_size * MAX_INFLATION) * (inflation_rate / MAX_INFLATION)^2, where
\* MAX_INFLATION is 8 = 2000 rate units: ori * rate^2 / (250 * 2000). Sizes are
\* multiples of 500000 length units, so the division is exact and done first.
\* the curve without the factor MAX_INFLATION: ori * (rate / MAX_INFLATION)^2
lerp_size_unscaled(ori_size, rate) ==
    Vec(((ori_size.x \div (2 * MAX_INFLATION)) * rate * rate) \div 1000,
        ((ori_size.y \div (2 * MAX_INFLATION)) * rate * rate) \div 1000)

lerp_size(ori_size, rate) ==
    Vec((ori_size.x \div (250 * MAX_INFLATION)) * rate * rate,
        (ori_size.y \div (250 * MAX_INFLATION)) * rate * rate)

\* Vec2::ceil on a length: up to the next whole pixel (31250 units)
CeilPx(v) == CeilDiv(v, 31250) * 31250

----------------------------------------------------------------------------
(* The collision map: a GridSize x GridSize grid whose border tiles are solid.
   map.get returns None (<<>>) outside the grid and Some(v) inside. *)
Solid(cx, cy) ==
    \/ cx = 0 \/ cy = 0
    \/ cx = GridSize - 1 \/ cy = GridSize - 1

MapGet(cx, cy) ==
    IF cx < 0 \/ cy < 0 \/ cx >= GridSize \/ cy >= GridSize THEN <<>>
    ELSE IF Solid(cx, cy) THEN <<1>> ELSE <<0>>

\* the cell is blocked: !map.get(..).is_some_and(|v| v == 0)
CellBlocked(cx, cy) ==
    LET c == MapGet(cx, cy) IN ~(c # <<>> /\ c[1] = 0)

\* the probe of Player::update: tiles ceil(min / tile) ..= floor(max / tile)
ProbeNoCeil(p, s) ==
    LET tx == FloorDiv(p.x - s.x \div 2, TileSize)
        ty == FloorDiv(p.y - s.y \div 2, TileSize)
        cx == FloorDiv(p.x + s.x \div 2, TileSize)
        cy == FloorDiv(p.y + s.y \div 2, TileSize)
    IN \E y \in ty..cy : \E x \in tx..cx : CellBlocked(x, y)

Probe(p, s) ==
    LET tx == CeilDiv(p.x - s.x \div 2, TileSize)
        ty == CeilDiv(p.y - s.y \div 2, TileSize)
        cx == FloorDiv(p.x + s.x \div 2, TileSize)
        cy == FloorDiv(p.y + s.y \div 2, TileSize)
    IN \E y \in ty..cy : \E x \in tx..cx : CellBlocked(x, y)

\* Ground truth the probe is judged against: the box [p - s/2, p + s/2] has
\* interior points in a tile that is solid or outside the grid. Tile c covers
\* [c * TileSize, (c + 1) * TileSize).
BoxOverlapsSolid(p, s) ==
    LET lox == p.x - s.x \div 2
        loy == p.y - s.y \div 2
        hix == p.x + s.x \div 2
        hiy == p.y + s.y \div 2
    IN \E y \in FloorDiv(loy, TileSize)..(CeilDiv(hiy, TileSize) - 1) :
       \E x \in FloorDiv(lox, TileSize)..(CeilDiv(hix, TileSize) - 1) :
           CellBlocked(x, y)

----------------------------------------------------------------------------
(* Environment of the core: what the input source, the integrator and the
   level loader may hand to it. *)
NoKeys == [restart |-> FALSE, inflate |-> FALSE, deflate |-> FALSE, left |-> FALSE,
           right |-> FALSE, up |-> FALSE, down |-> FALSE, jump |-> FALSE]

\* key states the input source may report as pressed: the resize keys, and
\* the keys that matter to the level flow
Keys == [restart : {FALSE}, inflate : BOOLEAN, deflate : BOOLEAN, left : {FALSE},
         right : {FALSE}, up : {FALSE}, down : {FALSE}, jump : {FALSE}]
FlowKeys == [restart : BOOLEAN, inflate : BOOLEAN, deflate : {FALSE}, left : {FALSE},
             right : {FALSE}, up : {FALSE}, down : {FALSE}, jump : {FALSE}]
SkipKeys == [restart : {FALSE}, inflate : BOOLEAN, deflate : {FALSE}, left : {FALSE},
             right : BOOLEAN, up : {FALSE}, down : {FALSE}, jump : BOOLEAN]
JumpKeys == [restart : {FALSE}, inflate : BOOLEAN, deflate : {FALSE}, left : {FALSE},
             right : {FALSE}, up : {FALSE}, down : {FALSE}, jump : BOOLEAN]

\* whether the sound assets are loaded when a cue asks for them
SoundsLoaded == {TRUE}

SpawnPos == Vec(8000000, 8000000)

\* where the integrator may leave the player at the end of its step
Motions == {
    [pos |-> Vec(8000000, 8000000),  vel |-> Vec(0, 700), on_ground |-> FALSE],
    [pos |-> Vec(1500000, 14500000), vel |-> Vec(0, 0),   on_ground |-> TRUE] }

\* boxes a resize may start from: centres on and off the grid, on a wall, next
\* to one and in the open, at rates over the whole range, before and after
\* the Crown
BoxCoords == {-1500000, 1500000, 8000000, 14500000, 17500000}
BoxPositions == {Vec(x, y) : x \in BoxCoords, y \in BoxCoords}
BoxRates == {MIN_INFLATION, SPAWN_INFLATION, 1200, MAX_INFLATION}
BoxAir == {0, 300, FULL_AIR}

\* outcomes the level loader may report for Level_<level>: a level outside the
\* project fails to load; FlakyLoads lets a level of the project fail as well
ProjectLoads == {TRUE}
FlakyLoads == BOOLEAN
LoadOutcomes(Results, level) == IF level <= MaxLevel THEN Results ELSE {FALSE}

\* PlaybackState::Playing
IsPlaying(pl) == pl \in {"loop", "shot", "shot_late"}

----------------------------------------------------------------------------
(* Player::load and Player::init: the state of a freshly spawned player *)
\* the mass the resize formula gives for the spawn rate
SpawnMassDerived == FracClamp(Frac(250, SPAWN_INFLATION), Frac(1, 10), Frac(1, 1))

\* ent.mass and ent.gravity as Player::init sets them
SpawnMass == Frac(1, 1)
SpawnGravity == Frac(1, 1)

SpawnSize == VecMin(lerp_size(PLAYER_SIZE, SPAWN_INFLATION), PLAYER_SIZE)

Spawn ==
    /\ can_jump' = FALSE
    /\ high_jump_time' = 0
    /\ inflation_rate' = SPAWN_INFLATION
    /\ original_size' = PLAYER_SIZE
    /\ normal' = Vec(1, 0)
    /\ inflation' = 0
    /\ alive' = TRUE
    /\ pos' = SpawnPos
    /\ size' = SpawnSize
    /\ vel' = Vec(0, 0)
    /\ accel' = Vec(0, 0)
    /\ mass' = SpawnMass
    /\ gravity' = SpawnGravity
    /\ restitution' = Frac(0, 1)
    /\ on_ground' = FALSE
    /\ crown' = TRUE

Init ==
    /\ dead = 0 /\ current_level = 0 /\ remained_air = 0 /\ loading_level = <<>>
    /\ can_jump = FALSE /\ high_jump_time = 0 /\ inflation_rate = SPAWN_INFLATION
    /\ original_size = PLAYER_SIZE /\ normal = Vec(1, 0) /\ inflation = 0
    /\ alive = TRUE /\ pos = SpawnPos /\ size = SpawnSize
    /\ vel = Vec(0, 0) /\ accel = Vec(0, 0)
    /\ mass = SpawnMass /\ gravity = SpawnGravity /\ restitution = Frac(0, 1)
    /\ on_ground = FALSE
    /\ playing = "none"
    /\ input = [keys |-> NoKeys, just_restart |-> FALSE, just_jump |-> FALSE]
    /\ tick = 0 /\ crown = TRUE /\ phase = "input"
    /\ outcome = "none" /\ cues = {} /\ load_calls = <<>> /\ requests = <<>>
    /\ boost = 0 /\ hold_time = -1 /\ released = TRUE

\* a player met in the middle of a level, about to resize
InitBox ==
    /\ dead = 0 /\ current_level = 0 /\ loading_level = <<>>
    /\ remained_air \in BoxAir
    /\ can_jump = FALSE /\ high_jump_time = 0
    /\ inflation_rate \in BoxRates
    /\ crown \in BOOLEAN
    /\ original_size = IF crown THEN PLAYER_SIZE
                       ELSE Vec(PLAYER_SIZE.x * 2, PLAYER_SIZE.y * 2)
    /\ normal = Vec(1, 0) /\ inflation = 0
    /\ alive = TRUE
    /\ pos \in BoxPositions
    /\ size = lerp_size(original_size, inflation_rate)
    /\ vel = Vec(0, 0) /\ accel = Vec(0, 0)
    /\ mass = Frac(1, 1) /\ gravity = Frac(1, 1) /\ restitution = Frac(0, 1)
    /\ on_ground = FALSE
    /\ playing = "none"
    /\ input = [keys |-> NoKeys, just_restart |-> FALSE, just_jump |-> FALSE]
    /\ tick = 0 /\ phase = "input"
    /\ outcome = "none" /\ cues = {} /\ load_calls = <<>> /\ requests = <<>>
    /\ boost = 0 /\ hold_time = -1 /\ released = TRUE

----------------------------------------------------------------------------
(* The input source is polled once per tick; just_pressed is the rising edge. *)
SampleInput(K, T) ==
    /\ phase = "input"
    /\ \E k \in K, t \in T :
        /\ k.restart => dead < MaxDead
        /\ input' = [keys |-> k,
                     just_restart |-> k.restart /\ ~input.keys.restart,
                     just_jump |-> k.jump /\ ~input.keys.jump]
        /\ tick' = t
        /\ released' = (released \/ ~k.jump)
    /\ phase' = IF alive THEN "update" ELSE "events"
    /\ outcome' = "none" /\ cues' = {} /\ load_calls' = <<>> /\ requests' = <<>>
    /\ UNCHANGED <<game_vars, player_vars, ent_vars, playing, crown, boost, hold_time>>

----------------------------------------------------------------------------
(* SoundManager *)
\* play_inflate: the handle kept in `playing` afterwards
PlayInflate(pl, ready) == IF IsPlaying(pl) THEN pl ELSE IF ready THEN "loop" ELSE pl
\* play_inflate started a new looping sound
PlayInflateStarts(pl, ready) == ~IsPlaying(pl) /\ ready

\* play_deflate: skipped while the kept sound is playing at a position < 2.0
PlayDeflateSkips(pl) == pl \in {"loop", "shot"}
PlayDeflate(pl, ready) == IF PlayDeflateSkips(pl) THEN pl ELSE IF ready THEN "shot" ELSE pl
PlayDeflateStarts(pl, ready) == ~PlayDeflateSkips(pl) /\ ready

\* g.loading_level = Some(target): the assignment replaces what was pending
RecordFirst(pending, target) == IF pending = <<>> THEN <<target>> ELSE pending
Record(pending, target) == <<target>>

\* g.dead += 1
DeadKept(d) == d
DeadAfterKill(d) == d + 1

\* g.loading_level = Some(g.current_level): the level the death reloads
KillTargetNext(level) == level + 1
KillTarget(level) == level

(* Player::kill *)
Kill(ready) ==
    /\ dead' = DeadAfterKill(dead)
    /\ loading_level' = Record(loading_level, KillTarget(current_level))
    /\ requests' = Append(requests, KillTarget(current_level))
    /\ cues' = IF ready THEN cues \cup {"killed"} ELSE cues
    /\ alive' = FALSE

----------------------------------------------------------------------------
(* Player::update *)
DirectionDeflateFirst(keys, rate) ==
    IF keys.deflate /\ rate > MIN_INFLATION THEN -1
    ELSE IF keys.inflate /\ rate < MAX_INFLATION THEN 1
    ELSE 0

\* the direction without the test of the rate against MAX_INFLATION
DirectionNoCap(keys, rate) ==
    IF keys.inflate THEN 1
    ELSE IF keys.deflate /\ rate > MIN_INFLATION THEN -1
    ELSE 0

Direction(keys, rate) ==
    IF keys.inflate /\ rate < MAX_INFLATION THEN 1
    ELSE IF keys.deflate /\ rate > MIN_INFLATION THEN -1
    ELSE 0

\* `remained`: the gauge held air before this tick's drain
HasAirAlways(air) == TRUE
HasAir(air) == air > 0

\* the air left after a growth tick
DrainNoFloor(air, t) == air - INFLATOR_SPEED * t
Drain(air, t) == Max(air - INFLATOR_SPEED * t, 0)

\* the gauge after the resize block: drained on a growth request only, before
\* the probe is asked
AirKept(dir, air, t) == air
AirAnyDir(dir, air, t) == IF dir # 0 THEN Drain(air, t) ELSE air
AirAfter(dir, air, t) == IF dir > 0 THEN Drain(air, t) ELSE air

\* the candidate rate with the direction left out of the product
CandidateRateUnsigned(rate, dir, t) ==
    Clamp(rate + INFLATION_SPEED * t, MIN_INFLATION, MAX_INFLATION)

CandidateRate(rate, dir, t) ==
    Clamp(rate + dir * INFLATION_SPEED * t, MIN_INFLATION, MAX_INFLATION)

CandidateSize(ori, rate, dir, t) == lerp_size(ori, CandidateRate(rate, dir, t))

\* the shift with the factor (-0.5, -0.5)
CandidatePosCentre(p, ori, rate, dir, t) ==
    LET new == CandidateSize(ori, rate, dir, t)
        old == lerp_size(ori, rate)
    IN Vec(p.x - CeilPx(new.x - old.x) \div 2, p.y - CeilPx(new.y - old.y) \div 2)

\* pos + (size - old_size).ceil() * (0.0, -0.5)
CandidatePos(p, ori, rate, dir, t) ==
    LET new == CandidateSize(ori, rate, dir, t)
        old == lerp_size(ori, rate)
    IN Vec(p.x, p.y - CeilPx(new.y - old.y) \div 2)

\* sound.playing.take() and stop with a 0.5 s fade: no sound is kept
StopPlayingKeeps(pl) == pl
StopPlaying(pl) == "none"

\* lines 317-397: the resize. A record of what the block leaves behind, and
\* whether the function returned from inside it.
Resize(ready) ==
    LET dir   == Direction(input.keys, inflation_rate)
        had   == HasAir(remained_air)
        air2  == AirAfter(dir, remained_air, tick)
        pl2   == IF dir > 0 /\ had THEN PlayInflate(playing, ready) ELSE playing
        cue2  == IF dir > 0 /\ had /\ PlayInflateStarts(playing, ready)
                 THEN {"inflate"} ELSE {}
        rate2 == CandidateRate(inflation_rate, dir, tick)
        size2 == CandidateSize(original_size, inflation_rate, dir, tick)
        pos2  == CandidatePos(pos, original_size, inflation_rate, dir, tick)
        same  == [returned |-> TRUE, air |-> air2, playing |-> pl2, cues |-> cue2,
                  rate |-> inflation_rate, inflation |-> inflation, size |-> size,
                  pos |-> pos, mass |-> mass, gravity |-> gravity,
                  restitution |-> restitution, outcome |-> "none"]
    IN  IF dir = 0
        THEN [same EXCEPT !.returned = FALSE, !.inflation = 0,
                          !.playing = StopPlaying(playing),
                          !.cues = IF playing # "none" THEN {"fade_stop"} ELSE {},
                          !.outcome = "idle"]
        ELSE IF dir > 0 /\ ~had
        THEN [same EXCEPT !.outcome = "noair"]
        ELSE IF Probe(pos2, size2)
        THEN [same EXCEPT !.outcome = "blocked"]
        ELSE [same EXCEPT !.returned = FALSE, !.rate = rate2, !.inflation = dir,
                          !.size = size2, !.pos = pos2,
                          !.mass = FracClamp(Frac(250, rate2), Frac(1, 10), Frac(1, 1)),
                          !.gravity = FracClamp(Frac(250, rate2), Frac(3, 10), Frac(1, 1)),
                          !.restitution = FracClamp(Frac(rate2, 2500), Frac(1, 10), Frac(2, 1)),
                          !.outcome = "committed"]

\* lines 399-460: facing normal, acceleration, deflate cue and jump, run only
\* when the resize block did not return. `infl` is self.inflation after it.
Steer(infl, pl, ready) ==
    LET k     == input.keys
        run   == IF on_ground THEN ACCEL_GROUND ELSE ACCEL_AIR
        ax    == IF k.right THEN run ELSE IF k.left THEN -run ELSE 0
        selfx == IF k.right THEN 1 ELSE IF k.left THEN -1 ELSE normal.x
        locx  == IF k.right THEN 1 ELSE IF k.left THEN -1 ELSE 0
        newy  == IF k.up THEN -1 ELSE IF k.down THEN 1 ELSE 0
        self  == Vec(selfx, newy)
        loc   == IF locx = 0 /\ newy = 0 THEN self ELSE Vec(locx, newy)
        defl  == infl < 0
    IN  [normal  |-> self,
         accel   |-> IF defl THEN Vec(ax + loc.x * ACCEL_DEFLATION, loc.y * ACCEL_DEFLATION)
                     ELSE Vec(ax, 0),
         playing |-> IF defl THEN PlayDeflate(pl, ready) ELSE pl,
         cues    |-> IF defl /\ PlayDeflateStarts(pl, ready) THEN {"deflate"} ELSE {}]

\* a jump logic that takes the held key and ground contact alone
JumpHeldRepeats ==
    IF input.keys.jump /\ on_ground
    THEN [vel_y |-> -PLAYER_JUMP_VEL, can_jump |-> FALSE, high_jump_time |-> JUMP_HIGH_TIME,
          jumped |-> TRUE]
    ELSE [vel_y |-> vel.y, can_jump |-> on_ground, high_jump_time |-> 0, jumped |-> FALSE]

Jump ==
    IF input.just_jump
    THEN IF on_ground /\ can_jump
         THEN [vel_y |-> -PLAYER_JUMP_VEL, can_jump |-> FALSE, high_jump_time |-> JUMP_HIGH_TIME,
               jumped |-> TRUE]
         ELSE IF high_jump_time > 0
         THEN LET h == high_jump_time - tick
                  f == IF h < 0 THEN tick + h ELSE tick
              IN [vel_y |-> vel.y - JUMP_HIGH_ACCEL * f, can_jump |-> can_jump,
                  high_jump_time |-> h, jumped |-> FALSE]
         ELSE [vel_y |-> vel.y, can_jump |-> can_jump, high_jump_time |-> high_jump_time,
               jumped |-> FALSE]
    ELSE [vel_y |-> vel.y, can_jump |-> on_ground, high_jump_time |-> 0, jumped |-> FALSE]

\* the press of Jump as the jump logic saw it on this tick: `applied` when the
\* jump branch ran, `gain` the upward velocity the logic added
TrackJump(applied, gain) ==
    IF applied
    THEN boost' = PLAYER_JUMP_VEL /\ hold_time' = 0 /\ released' = FALSE
    ELSE IF hold_time >= 0 /\ input.keys.jump
    THEN /\ boost' = boost + gain
         /\ hold_time' = Min(hold_time + tick, JUMP_HIGH_TIME)
         /\ UNCHANGED released
    ELSE hold_time' = -1 /\ UNCHANGED <<boost, released>>

\* the resize block left Player::update through one of its `return`s
ReturnsEarlyNever(r) == FALSE
ReturnsEarly(r) == r.returned

PlayerUpdate(Ready) ==
    /\ phase = "update" /\ alive
    /\ \E ready \in Ready :
        IF input.just_restart
        THEN /\ Kill(ready)
             /\ outcome' = "restart"
             /\ phase' = "events"
             /\ UNCHANGED <<current_level, remained_air, player_vars, pos, size, vel,
                            accel, mass, gravity, restitution, on_ground, playing,
                            jump_obs>>
        ELSE LET r == Resize(ready) IN
             /\ remained_air' = r.air
             /\ inflation_rate' = r.rate
             /\ inflation' = r.inflation
             /\ size' = r.size
             /\ pos' = r.pos
             /\ mass' = r.mass
             /\ gravity' = r.gravity
             /\ restitution' = r.restitution
             /\ outcome' = r.outcome
             /\ phase' = "physics"
             /\ IF ReturnsEarly(r)
                THEN /\ accel' = Vec(0, 0)
                     /\ playing' = r.playing
                     /\ cues' = cues \cup r.cues
                     /\ UNCHANGED <<normal, vel, can_jump, high_jump_time>>
                     /\ TrackJump(FALSE, 0)
                ELSE LET s == Steer(r.inflation, r.playing, ready)
                         j == Jump
                     IN /\ normal' = s.normal
                        /\ accel' = s.accel
                        /\ playing' = s.playing
                        /\ cues' = cues \cup r.cues \cup s.cues
                        /\ vel' = Vec(vel.x, j.vel_y)
                        /\ can_jump' = j.can_jump
                        /\ high_jump_time' = j.high_jump_time
                        /\ TrackJump(j.jumped, vel.y - j.vel_y)
             /\ UNCHANGED <<dead, current_level, loading_level, original_size, alive,
                            on_ground, requests>>
    /\ UNCHANGED <<input, tick, crown, load_calls>>

----------------------------------------------------------------------------
(* The integrator (external): moves the player and reports ground contact. *)
Integrate ==
    /\ phase = "physics"
    /\ \E m \in Motions :
        /\ pos' = m.pos
        /\ vel' = m.vel
        /\ on_ground' = m.on_ground
    /\ phase' = "events"
    /\ UNCHANGED <<game_vars, player_vars, alive, size, accel, mass, gravity, restitution,
                   playing, input, tick, crown, obs_vars, jump_obs>>

(* Touch, collide and kill callbacks raised while the entities are updated *)
\* Door::touch
DoorTargetSame(level) == level
DoorTargetSkip(level) == level + 2
DoorTarget(level) == level + 1

\* the player was killed by a touch of this tick's sweep and is still in it
KilledInSweep == ~alive /\ loading_level # <<>> /\ outcome # "restart"

DoorTouch ==
    /\ phase = "events" /\ (alive \/ KilledInSweep)
    /\ Len(requests) < MaxRequests
    /\ loading_level' = Record(loading_level, DoorTarget(current_level))
    /\ requests' = Append(requests, DoorTarget(current_level))
    /\ UNCHANGED <<dead, current_level, remained_air, player_vars, ent_vars, playing,
                   engine_vars, outcome, cues, load_calls, jump_obs>>

\* Spikes::touch: eng.kill(player), which runs Player::kill
SpikesTouch(Ready) ==
    /\ phase = "events" /\ alive /\ dead < MaxDead
    /\ \E ready \in Ready : Kill(ready)
    /\ UNCHANGED <<current_level, remained_air, player_vars, pos, size, vel, accel, mass,
                   gravity, restitution, on_ground, playing, engine_vars, outcome,
                   load_calls, jump_obs>>

\* Inflator::touch
InflatorTouch ==
    /\ phase = "events" /\ alive
    /\ remained_air' = FULL_AIR
    /\ UNCHANGED <<dead, current_level, loading_level, player_vars, ent_vars, playing,
                   engine_vars, obs_vars, jump_obs>>

\* Player::touch with a Crown
CrownSize(ori, rate) == VecMin(lerp_size(ori, rate), ori)

CrownTouch ==
    /\ phase = "events" /\ alive /\ crown
    /\ crown' = FALSE
    /\ original_size' = Vec(original_size.x * 2, original_size.y * 2)
    /\ size' = CrownSize(original_size', inflation_rate)
    /\ UNCHANGED <<game_vars, can_jump, high_jump_time, inflation_rate, normal, inflation,
                   alive, pos, vel, accel, mass, gravity, restitution, on_ground, playing,
                   input, tick, phase, obs_vars, jump_obs>>

\* Player::collide, raised by the integrator while it moves the player: it sees
\* the velocity and the flags Player::update left
HardLanding == ~can_jump /\ Abs(vel.x) + Abs(vel.y) > IMPACT_VEL

PlayerCollide(Ready) ==
    /\ phase = "physics" /\ alive
    /\ \E ready \in Ready :
        cues' = IF HardLanding /\ ready THEN cues \cup {"collide"} ELSE cues
    /\ UNCHANGED <<game_vars, player_vars, ent_vars, playing, engine_vars, outcome,
                   load_calls, requests, jump_obs>>

----------------------------------------------------------------------------
(* The audio thread: a one-shot passes position 2.0 or ends by itself. *)
AudioAdvance ==
    /\ phase = "input"
    /\ playing \in {"shot", "shot_late"}
    /\ playing' \in (IF playing = "shot" THEN {"shot_late", "stopped"} ELSE {"stopped"})
    /\ UNCHANGED <<game_vars, player_vars, ent_vars, engine_vars, obs_vars, jump_obs>>

----------------------------------------------------------------------------
(* Demo::update after scene_base_update: the pending level is taken and loaded *)
\* Option::take leaves None behind
TakeKeeps(opt) == opt
Take(opt) == <<>>

\* the level current after a load attempt
LevelAfterLoadAlways(cur, level, ok) == level
LevelAfterLoad(cur, level, ok) == IF ok THEN level ELSE cur

DemoUpdate(Results) ==
    /\ phase = "events"
    /\ phase' = "input"
    /\ IF loading_level = <<>>
       THEN UNCHANGED <<game_vars, player_vars, ent_vars, crown, load_calls, boost,
                        hold_time>>
       ELSE LET level == loading_level[1] IN
            /\ loading_level' = Take(loading_level)
            /\ \E ok \in LoadOutcomes(Results, level) :
                /\ load_calls' = Append(load_calls, [level |-> level, ok |-> ok])
                /\ current_level' = LevelAfterLoad(current_level, level, ok)
                /\ IF ok
                   THEN /\ Spawn /\ remained_air' = 0
                        /\ boost' = 0 /\ hold_time' = -1
                   ELSE UNCHANGED <<remained_air, player_vars, ent_vars, crown, boost,
                                    hold_time>>
            /\ UNCHANGED dead
    /\ UNCHANGED <<playing, input, tick, outcome, cues, requests, released>>

----------------------------------------------------------------------------
(* The resize: every resize input and tick length, pickups, deaths and the
   respawn that follows them. *)
Next ==
    \/ SampleInput(Keys, Ticks)
    \/ PlayerUpdate(SoundsLoaded)
    \/ Integrate
    \/ InflatorTouch
    \/ CrownTouch
    \/ SpikesTouch(SoundsLoaded)
    \/ DemoUpdate(ProjectLoads)

Spec == Init /\ [][Next]_vars

(* The level flow: doors, deaths, restarts and loads that may fail. *)
NextFlow ==
    \/ SampleInput(FlowKeys, FlowTicks)
    \/ PlayerUpdate(SoundsLoaded)
    \/ Integrate
    \/ DoorTouch
    \/ InflatorTouch
    \/ SpikesTouch(SoundsLoaded)
    \/ DemoUpdate(FlakyLoads)

SpecFlow == Init /\ [][NextFlow]_vars

(* The jump: presses and releases of Jump with and without a resize request
   (the gauge is empty, so a growth request is rejected), on and off the
   ground. *)
NextJump ==
    \/ SampleInput(JumpKeys, JumpTicks)
    \/ PlayerUpdate(SoundsLoaded)
    \/ PlayerCollide(SoundsLoaded)
    \/ Integrate
    \/ SpikesTouch(SoundsLoaded)
    \/ DemoUpdate(ProjectLoads)

SpecJump == Init /\ [][NextJump]_vars

(* A jump pressed on a resize tick: Jump, Right and Inflate with an empty and
   a filled gauge, next to the floor and in the open. *)
NextSkip ==
    \/ SampleInput(SkipKeys, SkipTicks)
    \/ PlayerUpdate(SoundsLoaded)
    \/ Integrate
    \/ InflatorTouch
    \/ DemoUpdate(ProjectLoads)

SpecSkip == Init /\ [][NextSkip]_vars

(* One resize: Player::update applied once to every box of InitBox, with
   every resize input and tick length. *)
NextBox ==
    \/ SampleInput(Keys, BoxTicks)
    \/ PlayerUpdate(SoundsLoaded)

SpecBox == InitBox /\ [][NextBox]_vars

----------------------------------------------------------------------------
(* Steps of a frame, told apart by the frame position they start and end in *)
UpdateStep == phase = "update" /\ alive /\ ~input.just_restart
DemoStep   == phase = "events" /\ phase' = "input"
GrowthRequested == Direction(input.keys, inflation_rate) > 0

\* the candidate box of this tick's resize request is obstructed
CandidateBlocked ==
    LET dir == Direction(input.keys, inflation_rate)
    IN Probe(CandidatePos(pos, original_size, inflation_rate, dir, tick),
             CandidateSize(original_size, inflation_rate, dir, tick))

----------------------------------------------------------------------------
(* C1: in every reachable state inflation_rate lies in
   [MIN_INFLATION, MAX_INFLATION], whatever the inputs, tick lengths and
   collision outcomes were. *)
C1_RateInRange ==
    MIN_INFLATION <= inflation_rate /\ inflation_rate <= MAX_INFLATION

\* a committed resize has driven the rate to the top of the range
C1_Witness == outcome = "committed" /\ inflation_rate = MAX_INFLATION

(* C2: whenever Player::update commits a resize, the committed box (pos -/+
   size / 2) overlaps no solid or out-of-grid cell. *)
C2_CommittedBoxClear ==
    (phase = "physics" /\ outcome = "committed") => ~BoxOverlapsSolid(pos, size)

(* C3: every change of the player's size is validated against the collision
   probe before it is committed, the Crown's doubling included: a size is
   never written while the probe reports the new box obstructed. *)
C3_SizeChangeProbed ==
    [][(size' # size /\ phase' # "input") => ~Probe(pos', size')]_vars

(* C4: in every reachable state the air gauge lies in [0, 1]. *)
C4_AirInRange == 0 <= remained_air /\ remained_air <= FULL_AIR

\* a growth tick asked for more air than was left and emptied the gauge
C4_Witness ==
    /\ phase = "physics" /\ outcome = "committed" /\ inflation = 1
    /\ remained_air = 0 /\ tick = 800

(* C5, as claimed: on any step where remained_air becomes smaller, inflate was
   requested on that tick and the resize was committed on that tick. *)
C5_DrainOnlyWhenCommitted ==
    [][remained_air' < remained_air =>
        (input'.keys.inflate /\ outcome' = "committed")]_vars

(* C5, amended: remained_air becomes smaller only in a Player::update that
   handles a growth request with air left, whether its resize is then
   committed or rejected by the probe, or when a successful level load resets
   it to 0. *)
C5_DrainOnlyOnGrowthOrLoad ==
    [][remained_air' < remained_air =>
        \/ /\ UpdateStep /\ GrowthRequested /\ remained_air > 0
           /\ outcome' \in {"committed", "blocked"}
        \/ /\ DemoStep /\ load_calls' # <<>> /\ load_calls'[1].ok
           /\ remained_air' = 0]_vars

\* a growth request was rejected by the probe after the drain
C5_Witness ==
    /\ phase = "physics" /\ outcome = "blocked" /\ GrowthRequested
    /\ remained_air < FULL_AIR

(* C6: a growth request made while the air gauge is 0 is rejected silently:
   inflation_rate, the entity's size and position and the gauge are the same
   after the tick, and no growth loop is started. *)
C6_NoAirNoGrowth ==
    [][(UpdateStep /\ GrowthRequested /\ remained_air = 0) =>
        /\ inflation_rate' = inflation_rate
        /\ size' = size /\ pos' = pos
        /\ remained_air' = remained_air
        /\ playing' = playing /\ "inflate" \notin cues']_vars

C6_Witness == phase = "physics" /\ outcome = "noair" /\ input.keys.inflate

(* C7: when the probe reports the candidate box obstructed the resize is
   rejected: inflation_rate, size, position, mass, gravity and restitution keep
   their values, and the air drained for a growth request stays drained. *)
C7_BlockedResizeRejected ==
    [][(/\ UpdateStep
        /\ Direction(input.keys, inflation_rate) # 0
        /\ GrowthRequested => remained_air > 0
        /\ CandidateBlocked) =>
        /\ inflation_rate' = inflation_rate
        /\ size' = size /\ pos' = pos
        /\ mass' = mass /\ gravity' = gravity /\ restitution' = restitution
        /\ GrowthRequested =>
            /\ remained_air' < remained_air
            /\ remained_air' = Max(remained_air - INFLATOR_SPEED * tick, 0)]_vars

\* a growth request with air left was stopped by the probe
C7_Witness ==
    /\ phase = "physics" /\ outcome = "blocked" /\ input.keys.inflate
    /\ inflation_rate < MAX_INFLATION /\ mass # Frac(1, 1)

----------------------------------------------------------------------------
(* C8: a pending level is consumed exactly once, by the Demo::update that
   follows the entity updates of its tick: that step leaves loading_level
   empty whether the load succeeds or fails and makes exactly one load attempt,
   for the pending level; no other step empties loading_level or loads. *)
C8_PendingConsumedOnce ==
    [][/\ DemoStep =>
            /\ loading_level' = <<>>
            /\ Len(load_calls') = IF loading_level = <<>> THEN 0 ELSE 1
            /\ loading_level # <<>> => load_calls'[1].level = loading_level[1]
       /\ ~DemoStep =>
            /\ loading_level # <<>> => loading_level' # <<>>
            /\ load_calls' = <<>>]_vars

\* a frame ended with its one load attempt made
C8_Witness ==
    phase = "input" /\ Len(load_calls) = 1 /\ loading_level = <<>>

(* C9: a Door touch at current_level = n sets the pending level to n + 1, and
   when the load at the tick boundary succeeds current_level becomes n + 1 and
   the air gauge becomes 0. *)
C9_DoorLoadsNextLevel ==
    [][/\ (phase = "events" /\ phase' = "events" /\ dead' = dead
           /\ loading_level' # loading_level) =>
            loading_level' = <<current_level + 1>>
       /\ (DemoStep /\ loading_level = <<current_level + 1>>
           /\ load_calls'[1].ok) =>
            /\ current_level' = current_level + 1
            /\ remained_air' = 0]_vars

\* the next level was entered through a Door
C9_Witness ==
    /\ phase = "input" /\ dead = 0 /\ current_level = 1
    /\ load_calls # <<>> /\ load_calls[1].ok

(* C10: when the load fails current_level keeps its value and the pending
   index is cleared anyway; later ticks attempt no load until a Door touch or a
   death sets the pending index again. *)
C10_FailedLoadNotRetried ==
    [][/\ (DemoStep /\ loading_level # <<>> /\ ~load_calls'[1].ok) =>
            /\ current_level' = current_level
            /\ loading_level' = <<>>
       /\ (DemoStep /\ loading_level = <<>>) => load_calls' = <<>>
       /\ (loading_level = <<>> /\ loading_level' # <<>>) =>
            /\ phase \in {"update", "events"} /\ phase' = "events"
            /\ \/ loading_level' = <<current_level + 1>>
               \/ dead' = dead + 1 /\ loading_level' = <<current_level>>]_vars

\* a Door led to a level that failed to load
C10_Witness ==
    /\ phase = "input" /\ Len(load_calls) = 1 /\ ~load_calls[1].ok
    /\ load_calls[1].level = current_level + 1 /\ alive

----------------------------------------------------------------------------
(* C11: when several transition requests (Door touches and deaths, in any
   order) are recorded within one tick, the Demo::update at the tick boundary
   makes one load attempt, for the target recorded last; no earlier target is
   loaded and nothing stays pending for later ticks. *)
C11_LastRequestWins ==
    [][(DemoStep /\ Len(requests) >= 2) =>
        /\ Len(load_calls') = 1
        /\ load_calls'[1].level = requests[Len(requests)]
        /\ loading_level' = <<>>]_vars

\* a tick recorded a Door touch and then a death, and loaded the death's target
C11_Witness ==
    /\ phase = "input" /\ Len(requests) >= 2
    /\ requests[1] # requests[Len(requests)]
    /\ Len(load_calls) = 1 /\ load_calls[1].level = requests[Len(requests)]

(* C12: Game.dead grows by exactly 1 on every death of the player (a restart
   or a Spikes touch), whether the reload that follows succeeds or fails; no
   other step changes it, so it never decreases. *)
C12_DeadCountsDeaths ==
    [][/\ (alive /\ ~alive') => dead' = dead + 1
       /\ dead' # dead => (alive /\ ~alive' /\ dead' = dead + 1)
       /\ DemoStep => dead' = dead]_vars

\* a death was counted and the reload that followed it failed
C12_Witness ==
    /\ phase = "input" /\ dead = 1 /\ ~alive
    /\ Len(load_calls) = 1 /\ ~load_calls[1].ok
    /\ load_calls[1].level = current_level

----------------------------------------------------------------------------
\* the jump branch of Player::update ran in this step
JumpedStep == UpdateStep /\ hold_time' = 0

(* C13: of two runs that press Jump on the same tick from the same grounded,
   armed state, the one that keeps Jump held for the whole JUMP_HIGH_TIME
   window gets strictly more upward velocity from the jump logic than the one
   that releases right after the press, which gets PLAYER_JUMP_VEL. *)
C13_HoldJumpsHigher ==
    hold_time >= JUMP_HIGH_TIME => boost > PLAYER_JUMP_VEL

(* C14: on every tick where the player is on the ground, can_jump is set and
   Jump is pressed this tick, vel.y becomes -PLAYER_JUMP_VEL, can_jump is
   cleared and high_jump_time becomes JUMP_HIGH_TIME, whatever the resize
   request of that tick and its outcome are. *)
C14_GroundedPressJumps ==
    [][(UpdateStep /\ on_ground /\ can_jump /\ input.just_jump) =>
        /\ vel'.y = -PLAYER_JUMP_VEL
        /\ ~can_jump'
        /\ high_jump_time' = JUMP_HIGH_TIME]_vars

(* C15: can_jump changes from false to true only on a tick where the player is
   on the ground and Jump is not held. *)
C15_RearmOnlyWhenReleased ==
    [][(~can_jump /\ can_jump') =>
        (UpdateStep /\ on_ground /\ ~input.keys.jump)]_vars

(* C16: holding Jump never repeats a jump: a tick on which the jump velocity is
   applied is preceded, since the jump before it, by a tick on which Jump was
   not held. *)
C16_NoAutoRepeat == [][JumpedStep => released]_vars

\* Jump stayed held through the whole window on the ground with can_jump set
\* again, and no second jump came
C16_Witness ==
    /\ phase = "physics" /\ hold_time = JUMP_HIGH_TIME /\ ~released
    /\ input.keys.jump /\ on_ground /\ can_jump

(* C17: high_jump_time lies in [0, JUMP_HIGH_TIME]; it is 0 at the end of any
   tick on which Jump is not held. *)
C17_ChargeInRange ==
    /\ 0 <= high_jump_time /\ high_jump_time <= JUMP_HIGH_TIME
    /\ (phase = "physics" /\ ~input.keys.jump) => high_jump_time = 0

----------------------------------------------------------------------------
(* C18: when Inflate and Deflate are both pressed on a tick, the tick is
   handled as a growth request and never as a shrink, at every inflation_rate
   of the range, the maximum included: the rate does not fall and no shrink is
   committed. *)
C18_GrowTakesPriority ==
    [][(UpdateStep /\ input.keys.inflate /\ input.keys.deflate) =>
        /\ inflation_rate' >= inflation_rate
        /\ ~(outcome' = "committed" /\ inflation' = -1)]_vars

(* C19: a growth loop is started only on a tick whose growth was accepted (the
   resize was committed) and while no loop is active; a growth request that
   the probe rejects starts none. *)
C19_LoopOnlyWhenAccepted ==
    [][("inflate" \in cues' /\ "inflate" \notin cues) =>
        /\ outcome' = "committed" /\ inflation' = 1
        /\ playing # "loop"]_vars

(* C20: an active growth loop is stopped on the first tick on which growth is
   no longer requested (no input, a deflate request, or an inflate request
   with the gauge at 0): no loop is active at the end of a tick without a
   growth request. *)
C20_LoopStopsWithoutGrowth ==
    [][(UpdateStep /\ ~(GrowthRequested /\ remained_air > 0)) =>
        playing' # "loop"]_vars

----------------------------------------------------------------------------
(* C21: the hard-landing cue is requested on a collision only if the player
   was airborne, no jump was started on this tick and |vel.x| + |vel.y| is
   above the impact threshold; a collision on the tick a jump starts requests
   no cue. *)
C21_HardLandingOnly ==
    [][("collide" \in cues' /\ "collide" \notin cues) =>
        /\ ~on_ground
        /\ hold_time # 0
        /\ Abs(vel.x) + Abs(vel.y) > IMPACT_VEL]_vars

(* C22: in every reachable state the entity's size is
   lerp_size(original_size, inflation_rate), right after a spawn and right
   after a Crown pickup at any inflation_rate included. *)
C22_SizeOnCurve == size = lerp_size(original_size, inflation_rate)

----------------------------------------------------------------------------
\* a resize is attempted on this tick: a direction is requested and, for
\* growth, the gauge holds air
ResizeAttempted ==
    /\ UpdateStep
    /\ Direction(input.keys, inflation_rate) # 0
    /\ GrowthRequested => remained_air > 0

\* cells c with lo <= c * TileSize <= hi in both axes, i.e. the range
\* ceil(lo / TileSize) .. floor(hi / TileSize), for the box p -/+ s / 2
CoveredCells(p, s) ==
    {c \in (-GridSize .. 2 * GridSize) \X (-GridSize .. 2 * GridSize) :
        /\ c[1] * TileSize >= p.x - s.x \div 2 /\ c[1] * TileSize <= p.x + s.x \div 2
        /\ c[2] * TileSize >= p.y - s.y \div 2 /\ c[2] * TileSize <= p.y + s.y \div 2}

OutsideGrid(c) == c[1] < 0 \/ c[2] < 0 \/ c[1] >= GridSize \/ c[2] >= GridSize

(* C23: the probe of a resize covers the cells ceil(min / tile_size) ..
   floor(max / tile_size) of the candidate box and reports blocked exactly
   when one of them is non-zero or outside the grid; a blocked probe leaves
   the box as it was. *)
C23_ProbeCoversCeilToFloor ==
    [][ResizeAttempted =>
        LET dir == Direction(input.keys, inflation_rate)
            p == CandidatePos(pos, original_size, inflation_rate, dir, tick)
            s == CandidateSize(original_size, inflation_rate, dir, tick)
        IN /\ outcome' \in {"blocked", "committed"}
           /\ (outcome' = "blocked") <=>
                (\E c \in CoveredCells(p, s) : OutsideGrid(c) \/ Solid(c[1], c[2]))
           /\ outcome' = "blocked" => (pos' = pos /\ size' = size)]_vars

\* a growth by one frame was blocked for a box that lies left of the grid,
\* where every covered cell is unmapped
C23_Witness ==
    /\ phase = "physics" /\ outcome = "blocked" /\ tick = 5
    /\ pos.x + size.x \div 2 < 0 /\ pos.y = 8000000

(* C24: lerp_size is non-decreasing in the rate over [MIN_INFLATION,
   MAX_INFLATION] in both components, and at MAX_INFLATION (8) it is
   original_size * 8. The entity's size is the curve's value at its rate; it
   is compared with the curve at every other rate. *)
C24_LerpMonotone ==
    /\ \A r \in MIN_INFLATION .. MAX_INFLATION :
        LET v == lerp_size(original_size, r) IN
        /\ r <= inflation_rate => (v.x <= size.x /\ v.y <= size.y)
        /\ r >= inflation_rate => (v.x >= size.x /\ v.y >= size.y)
    /\ inflation_rate = MAX_INFLATION =>
        size = Vec(original_size.x * 8, original_size.y * 8)

\* a growth was committed up to the maximum rate
C24_Witness ==
    /\ phase = "physics" /\ outcome = "committed" /\ inflation = 1
    /\ inflation_rate = MAX_INFLATION /\ size = Vec(8000000, 8000000)

(* C25: on an accepted resize tick the new inflation_rate is
   clamp(old rate + direction * INFLATION_SPEED * dt, MIN_INFLATION,
   MAX_INFLATION), and on a growth tick with air left the gauge becomes
   max(air - INFLATOR_SPEED * dt, 0). *)
C25_RateAndAirArithmetic ==
    [][/\ (ResizeAttempted /\ outcome' = "committed") =>
            LET dir == IF GrowthRequested THEN 1 ELSE -1
                raw == inflation_rate + dir * INFLATION_SPEED * tick
            IN inflation_rate' = Min(Max(raw, MIN_INFLATION), MAX_INFLATION)
       /\ (UpdateStep /\ GrowthRequested /\ remained_air > 0) =>
            /\ remained_air - INFLATOR_SPEED * tick >= 0 =>
                    remained_air' = remained_air - INFLATOR_SPEED * tick
            /\ remained_air - INFLATOR_SPEED * tick < 0 => remained_air' = 0]_vars

\* rate 2.8 and air 1.0 after one accepted growth frame of 1/60 s: rate 2.82,
\* air 1.0 - 0.5 / 60
C25_Witness ==
    /\ phase = "physics" /\ outcome = "committed" /\ tick = 5
    /\ inflation_rate = SPAWN_INFLATION + 5 /\ remained_air = FULL_AIR - 5

(* C26: after every committed resize mass = clamp(1 / rate, 0.1, 1.0),
   gravity = clamp(1 / rate, 0.3, 1.0) and restitution =
   clamp(rate / 10, 0.1, 2.0) for the newly committed rate. Over the range of
   the rate 1 / rate lies in [0.125, 0.625] and rate / 10 in [0.16, 0.8], so
   only the floor of gravity is ever met: 1 / rate < 0.3 above rate 10 / 3. *)
C26_PhysicalParameters ==
    [][(UpdateStep /\ outcome' = "committed") =>
        /\ mass'.n * inflation_rate' = 250 * mass'.d
        /\ IF 3 * inflation_rate' > 2500
           THEN gravity'.n * 10 = 3 * gravity'.d
           ELSE gravity'.n * inflation_rate' = 250 * gravity'.d
        /\ restitution'.n * 2500 = inflation_rate' * restitution'.d]_vars

\* a resize was committed at a rate where the floor of gravity applies
C26_Witness ==
    /\ phase = "physics" /\ outcome = "committed" /\ inflation_rate = MAX_INFLATION
    /\ FracEq(gravity, Frac(3, 10)) /\ FracEq(mass, Frac(1, 8))

----------------------------------------------------------------------------
(* C27: on a tick with no resize direction (neither Inflate below the maximum
   rate nor Deflate above the minimum) Player.inflation becomes 0, the kept
   sound, an active growth loop included, is stopped with the fade, and
   inflation_rate, size, position, mass, gravity, restitution and the air
   gauge keep their values. *)
C27_IdleTick ==
    [][(/\ UpdateStep
        /\ ~(input.keys.inflate /\ inflation_rate < MAX_INFLATION)
        /\ ~(input.keys.deflate /\ inflation_rate > MIN_INFLATION)) =>
        /\ inflation' = 0
        /\ playing' = "none"
        /\ playing = "loop" => "fade_stop" \in cues'
        /\ UNCHANGED <<inflation_rate, size, pos, mass, gravity, restitution,
                       remained_air>>]_vars

\* Inflate is still held at the maximum rate: the tick has no direction and
\* stops the loop of the growth before it
C27_Witness ==
    /\ phase = "physics" /\ outcome = "idle" /\ "fade_stop" \in cues
    /\ input.keys.inflate /\ inflation_rate = MAX_INFLATION /\ playing = "none"

----------------------------------------------------------------------------
(* C28, as claimed: the position of a committed resize is the old position
   plus (candidate_size - old_size) * (-0.5, -0.5), in both axes. *)
C28_CentreAnchor ==
    [][(UpdateStep /\ outcome' = "committed") =>
        LET old == lerp_size(original_size, inflation_rate) IN
        /\ 2 * (pos'.x - pos.x) = -(size'.x - old.x)
        /\ 2 * (pos'.y - pos.y) = -(size'.y - old.y)]_vars

(* C28, amended: the position of a committed resize is the old position plus
   ceil(candidate_size - old_size) * (0.0, -0.5): x keeps its value and y
   moves up by half of the growth in height, the growth being rounded up to a
   whole pixel (31250 length units) first. *)
C28_BottomAnchor ==
    [][(UpdateStep /\ outcome' = "committed") =>
        LET old == lerp_size(original_size, inflation_rate)
            d == size'.y - old.y
            c == 2 * (pos.y - pos'.y)
        IN /\ pos'.x = pos.x
           /\ c % 31250 = 0 /\ c >= d /\ c - 31250 < d]_vars

\* one frame of growth from rate 2.8: the height grows by 0.45 px, rounded up
\* to 1 px, and the centre moves up by half a pixel, x staying
C28_Witness ==
    /\ phase = "physics" /\ outcome = "committed" /\ tick = 5 /\ inflation = 1
    /\ inflation_rate = SPAWN_INFLATION + 5
    /\ pos = Vec(8000000, 8000000 - 15625)

----------------------------------------------------------------------------
(* C29: a pending level index is always current_level or current_level + 1;
   so over Door touches, deaths, restarts and load results current_level
   never decreases and grows by at most 1 per tick. *)
C29_LevelStepsByOne ==
    [][/\ loading_level' # <<>> =>
            loading_level'[1] \in {current_level', current_level' + 1}
       /\ current_level' >= current_level
       /\ current_level' <= current_level + 1
       /\ current_level' # current_level => DemoStep]_vars

\* on the second level, reached through a Door, a death has set the pending
\* index to the level itself
C29_Witness ==
    /\ current_level = 1 /\ loading_level = <<1>> /\ dead = 1 /\ ~alive

(* C30: a press of Restart is handled as a death of the player: dead grows by
   1, the pending level becomes current_level, and nothing else of that
   tick's Player::update runs: no resize, no air drain, no movement, no jump
   handling. *)
C30_RestartIsDeath ==
    [][(phase = "update" /\ alive /\ input.just_restart) =>
        /\ dead' = dead + 1
        /\ loading_level' = <<current_level>>
        /\ UNCHANGED <<remained_air, inflation_rate, inflation, size, pos, vel, accel,
                       mass, gravity, restitution, normal, can_jump, high_jump_time,
                       playing>>
        /\ "inflate" \notin cues']_vars

\* Restart was pressed together with Inflate while the gauge held air: the
\* death is recorded and the growth request of the tick is not handled
C30_Witness ==
    /\ outcome = "restart" /\ dead = 1 /\ loading_level = <<current_level>>
    /\ input.keys.inflate /\ remained_air = FULL_AIR
    /\ inflation_rate = SPAWN_INFLATION

----------------------------------------------------------------------------
\* this tick's resize request is rejected: growth with the gauge at 0, or a
\* candidate box the probe reports obstructed
ResizeRejected ==
    /\ UpdateStep
    /\ Direction(input.keys, inflation_rate) # 0
    /\ (GrowthRequested /\ remained_air = 0) \/ CandidateBlocked

(* C31: on a tick whose resize request is rejected the rest of Player::update
   is skipped: can_jump, high_jump_time, the velocity, the facing normal and
   Player.inflation keep their values; a Jump pressed on that tick starts no
   jump then, and none later, since a jump starts only on the tick of its own
   press and only when that tick's resize is not rejected. *)
C31_RejectedSkipsRest ==
    [][/\ ResizeRejected =>
            UNCHANGED <<can_jump, high_jump_time, vel, normal, inflation>>
       /\ JumpedStep => (input.just_jump /\ ~ResizeRejected)]_vars

\* Jump and Right were pressed on the ground with can_jump set while the
\* growth of that tick was blocked by the probe: no jump, no turn
C31_Witness ==
    /\ phase = "physics" /\ outcome = "blocked" /\ input.just_jump
    /\ input.keys.right /\ on_ground /\ can_jump
    /\ vel.y = 0 /\ high_jump_time = 0

----------------------------------------------------------------------------
(* C32: holding Inflate while inflation_rate is MAX_INFLATION is no growth
   request and leaves the air gauge as it is, whereas holding Inflate while the
   probe blocks the resize drains the gauge by INFLATOR_SPEED * dt on every
   such tick, down to 0 and no further. *)
C32_DrainAtMaxAndWhenBlocked ==
    [][/\ (UpdateStep /\ input.keys.inflate /\ inflation_rate = MAX_INFLATION) =>
            /\ remained_air' = remained_air
            /\ "inflate" \notin cues'
            /\ inflation_rate' <= inflation_rate
       /\ (/\ UpdateStep /\ input.keys.inflate /\ inflation_rate < MAX_INFLATION
           /\ remained_air > 0 /\ CandidateBlocked) =>
            /\ remained_air' < remained_air
            /\ remained_air' >= 0
            /\ remained_air' \in {0, remained_air - INFLATOR_SPEED * tick}
            /\ inflation_rate' = inflation_rate]_vars

\* Inflate is held at the maximum rate with a full gauge: nothing is drained
C32_Witness ==
    /\ phase = "physics" /\ outcome = "idle" /\ input.keys.inflate
    /\ ~input.keys.deflate
    /\ inflation_rate = MAX_INFLATION /\ remained_air = FULL_AIR

----------------------------------------------------------------------------
\* this step of Demo::update loaded a level and spawned a new player
RespawnStep ==
    /\ DemoStep /\ Len(load_calls') > Len(load_calls)
    /\ load_calls'[Len(load_calls')].ok

\* mass and gravity are the values the resize formulas give for the rate
DerivedParams ==
    /\ mass = FracClamp(Frac(250, inflation_rate), Frac(1, 10), Frac(1, 1))
    /\ gravity = FracClamp(Frac(250, inflation_rate), Frac(3, 10), Frac(1, 1))

\* mass and gravity are both 1.0, which no rate in [MIN, MAX] derives
UnitParams ==
    /\ FracEq(mass, Frac(1, 1)) /\ FracEq(gravity, Frac(1, 1))
    /\ ~FracEq(mass, FracClamp(Frac(250, inflation_rate), Frac(1, 10), Frac(1, 1)))
    /\ ~FracEq(gravity, FracClamp(Frac(250, inflation_rate), Frac(3, 10), Frac(1, 1)))

(* C33: from every player spawn until the first committed resize mass and
   gravity are both 1.0 and not the values the resize formulas give for the
   rate (at the spawn rate 2.8: 1 / 2.8); the first committed resize
   establishes the derived values, and they then stay derived until the next
   spawn. *)
C33_UnitUntilFirstResize ==
    /\ UnitParams /\ inflation_rate = SPAWN_INFLATION
    /\ [][/\ RespawnStep => (UnitParams' /\ inflation_rate' = SPAWN_INFLATION)
          /\ (UnitParams /\ ~(UpdateStep /\ outcome' = "committed")) =>
               (UnitParams' /\ inflation_rate' = SPAWN_INFLATION)
          /\ (UpdateStep /\ outcome' = "committed") => DerivedParams'
          /\ (DerivedParams /\ ~RespawnStep) => DerivedParams']_vars

\* a player respawned after a death has tried a resize that was rejected, and
\* still has the unit mass and gravity at the spawn rate
C33_Witness ==
    /\ phase = "physics" /\ outcome \in {"blocked", "noair"} /\ dead = 1
    /\ UnitParams /\ inflation_rate = SPAWN_INFLATION

====
